---- MODULE Spec2Model ----
(***************************************************************************)
(* Model of source/lib/dng_sdk/dng_sdk.py: the script that builds the      *)
(* dng_sdk target descriptor (gyp_build_object), parses the -m/--modules   *)
(* option with argparse, appends the two GPR feature defines and prints    *)
(* the descriptor.                                                         *)
(*                                                                         *)
(* One invocation of the script is a run of the program counter            *)
(*   construct -> parse -> enc -> dec -> print -> exited                   *)
(* (parse -> exited when argparse exits).  Invocations follow one another; *)
(* each starts with a fresh interpreter.  prev remembers what the last     *)
(* emitting invocation printed, so that two invocations can be compared.   *)
(*                                                                         *)
(* print() is modelled as handing the descriptor value to stdout: the text *)
(* form of the dict is not modelled.                                       *)
(***************************************************************************)
EXTENDS Naturals, Sequences, FiniteSets, TLC

\* Bound of the model: the longest command line (sys.argv[1:]) explored.
MaxArgs == 2

\* The words a command line is made of: the option strings of the parser, the
\* three choices, and two values outside the choices.
Tokens == {"-m", "--modules", "-h", "all", "gpr_encoding", "gpr_decoding",
           "none", "ALL"}

\* Every command line of at most MaxArgs words.
ArgvSet == UNION {[1..n -> Tokens] : n \in 0..MaxArgs}

\* Values handed straight to the resolver when it is exercised as a component
\* (SpecCore): the three choices and values outside them.
RawSelections == {"all", "gpr_encoding", "gpr_decoding", "none", "ALL", "",
                  "gpr_encoding,gpr_decoding"}

(***************************************************************************)
(* The descriptor catalog, lines 10-174.                                   *)
(***************************************************************************)
default_defines == <<"<@(default_defines)", "qDNGXMPFiles=0", "qDNGXMPDocOps=0">>

catalog_sources ==
    <<
       "./dng_validate.cpp", "./dng_1d_function.cpp", "./dng_1d_function.h",
       "./dng_1d_table.cpp", "./dng_1d_table.h", "./dng_abort_sniffer.cpp",
       "./dng_abort_sniffer.h", "./dng_area_task.cpp", "./dng_area_task.h",
       "./dng_assertions.h", "./dng_auto_ptr.h", "./dng_bad_pixels.cpp",
       "./dng_bad_pixels.h", "./dng_bottlenecks.cpp", "./dng_bottlenecks.h",
       "./dng_camera_profile.cpp", "./dng_camera_profile.h", "./dng_classes.h",
       "./dng_color_space.cpp", "./dng_color_space.h", "./dng_color_spec.cpp",
       "./dng_color_spec.h", "./dng_date_time.cpp", "./dng_date_time.h",
       "./dng_errors.h", "./dng_exceptions.cpp", "./dng_exceptions.h",
       "./dng_exif.cpp", "./dng_exif.h", "./dng_fast_module.h",
       "./dng_file_stream.cpp", "./dng_file_stream.h", "./dng_filter_task.cpp",
       "./dng_filter_task.h", "./dng_fingerprint.cpp", "./dng_fingerprint.h",
       "./dng_flags.h", "./dng_gain_map.cpp", "./dng_gain_map.h",
       "./dng_globals.cpp", "./dng_globals.h", "./dng_host.cpp",
       "./dng_host.h", "./dng_hue_sat_map.cpp", "./dng_hue_sat_map.h",
       "./dng_ifd.cpp", "./dng_ifd.h", "./dng_image.cpp",
       "./dng_image.h", "./dng_image_writer.cpp", "./dng_image_writer.h",
       "./dng_info.cpp", "./dng_info.h", "./dng_iptc.cpp",
       "./dng_iptc.h", "./dng_jpeg_image.cpp", "./dng_jpeg_image.h",
       "./dng_lens_correction.cpp", "./dng_lens_correction.h", "./dng_linearization_info.cpp",
       "./dng_linearization_info.h", "./dng_lossless_jpeg.cpp", "./dng_lossless_jpeg.h",
       "./dng_matrix.cpp", "./dng_matrix.h", "./dng_memory.cpp",
       "./dng_memory.h", "./dng_memory_stream.cpp", "./dng_memory_stream.h",
       "./dng_misc_opcodes.cpp", "./dng_misc_opcodes.h", "./dng_mosaic_info.cpp",
       "./dng_mosaic_info.h", "./dng_mutex.cpp", "./dng_mutex.h",
       "./dng_negative.cpp", "./dng_negative.h", "./dng_opcode_list.cpp",
       "./dng_opcode_list.h", "./dng_opcodes.cpp", "./dng_opcodes.h",
       "./dng_orientation.cpp", "./dng_orientation.h", "./dng_parse_utils.cpp",
       "./dng_parse_utils.h", "./dng_pixel_buffer.cpp", "./dng_pixel_buffer.h",
       "./dng_point.cpp", "./dng_point.h", "./dng_preview.cpp",
       "./dng_preview.h", "./dng_pthread.cpp", "./dng_pthread.h",
       "./dng_rational.cpp", "./dng_rational.h", "./dng_read_image.cpp",
       "./dng_read_image.h", "./dng_rect.cpp", "./dng_rect.h",
       "./dng_ref_counted_block.cpp", "./dng_ref_counted_block.h", "./dng_reference.cpp",
       "./dng_reference.h", "./dng_render.cpp", "./dng_render.h",
       "./dng_resample.cpp", "./dng_resample.h", "./dng_sdk_limits.h",
       "./dng_shared.cpp", "./dng_shared.h", "./dng_simple_image.cpp",
       "./dng_simple_image.h", "./dng_spline.cpp", "./dng_spline.h",
       "./dng_stream.cpp", "./dng_stream.h", "./dng_string.cpp",
       "./dng_string.h", "./dng_string_list.cpp", "./dng_string_list.h",
       "./dng_tag_codes.h", "./dng_tag_types.cpp", "./dng_tag_types.h",
       "./dng_tag_values.h", "./dng_temperature.cpp", "./dng_temperature.h",
       "./dng_tile_iterator.cpp", "./dng_tile_iterator.h", "./dng_tone_curve.cpp",
       "./dng_tone_curve.h", "./dng_types.h", "./dng_uncopyable.h",
       "./dng_utils.cpp", "./dng_utils.h", "./dng_xmp.cpp",
       "./dng_xmp.h", "./dng_xmp_sdk.cpp", "./dng_xmp_sdk.h",
       "./dng_xy_coord.cpp", "./dng_xy_coord.h"
    >>

Catalog ==
    [targets |-> <<
        [target_name  |-> "dng_sdk",
         type         |-> "static_library",
         include_dirs |-> <<>>,
         defines      |-> default_defines,
         includes     |-> <<"../xmp_sdk/xmp_sdk.gypi">>,
         sources      |-> catalog_sources]
     >>]

\* gyp_build_object before line 10 has run: the name is not bound yet.
Unbound == [targets |-> <<>>]

\* args before line 180 has run.
NoArgs == [bound |-> FALSE, modules |-> ""]

\* prev before any invocation has printed a descriptor.
NoPrev == [set |-> FALSE, argv |-> <<>>, modules |-> "", descriptor |-> Unbound]

VARIABLES
    pc,                \* position in the script, or "idle" / "exited"
    argv,              \* sys.argv[1:] of the current invocation
    gyp_build_object,  \* the module-level descriptor object
    args,              \* the namespace parse_args returned
    stdout,            \* what the invocation wrote to standard output
    stderr,            \* what the invocation wrote to standard error
    status,            \* the exit status of the invocation (0 while running)
    prev               \* the last descriptor an earlier invocation printed

vars == <<pc, argv, gyp_build_object, args, stdout, stderr, status, prev>>

(***************************************************************************)
(* argparse, as configured on lines 177-178 and run on line 180.           *)
(***************************************************************************)
choices == {"gpr_encoding", "gpr_decoding", "all"}

\* Variant of ModulesDefault: add_argument without default=, so a command
\* line without -m leaves modules at None.
ModulesDefaultNone == "None"

ModulesDefault == "all"

OptionStrings == {"-m", "--modules"}

HelpStrings == {"-h"}

\* A word argparse classifies as an option ('O') rather than an argument ('A').
IsOption(t) == t \in OptionStrings \cup HelpStrings

\* Variant of CheckValue: add_argument without choices=, any value passes.
CheckValueAny(v) == TRUE

\* add_argument(..., choices=[...]): the value check of the -m option.
CheckValue(v) == v \in choices

ParseOk(m) == [outcome |-> "ok", modules |-> m, message |-> ""]

ParseHelp == [outcome |-> "help", modules |-> "", message |-> ""]

ParseError(msg) == [outcome |-> "error", modules |-> "", message |-> msg]

\* parse_args over a[i..], with the value of modules so far and the words
\* no action consumed.  Words are handled left to right: -h prints the help
\* and exits; -m takes exactly one argument word and checks it against the
\* choices; any other word is left over, and left-over words are an error
\* once the whole command line has been read.
RECURSIVE ParseFrom(_, _, _, _)
ParseFrom(a, i, modules, extras) ==
    IF i > Len(a)
    THEN IF extras # <<>> THEN ParseError("unrecognized arguments")
                          ELSE ParseOk(modules)
    ELSE IF a[i] \in HelpStrings
    THEN ParseHelp
    ELSE IF a[i] \in OptionStrings
    THEN IF i + 1 > Len(a) \/ IsOption(a[i + 1])
         THEN ParseError("expected one argument")
         ELSE IF ~CheckValue(a[i + 1])
         THEN ParseError("invalid choice")
         ELSE ParseFrom(a, i + 2, a[i + 1], extras)
    ELSE ParseFrom(a, i + 1, modules, Append(extras, a[i]))

parse_args(a) == ParseFrom(a, 1, ModulesDefault, <<>>)

(***************************************************************************)
(* The feature resolver, lines 182-190.                                    *)
(***************************************************************************)
\* Variant of append: list.insert(0, x).
appendFront(list, x) == <<x>> \o list

\* list.append
append(list, x) == Append(list, x)

\* Variant of AppendDefine: the append goes to the 'sources' list.
AppendDefineToSources(obj, d) == [obj EXCEPT !.targets[1].sources = append(@, d)]

\* gyp_build_object['targets'][0]['defines'].append( d )
AppendDefine(obj, d) == [obj EXCEPT !.targets[1].defines = append(@, d)]

\* Variant of EncodingDefine: the test forgets "all".
EncodingDefineOnly(m) ==
    IF m = "gpr_encoding"
    THEN "ENABLE_GPR_ENCODING=1"
    ELSE "ENABLE_GPR_ENCODING=0"

\* Variant of EncodingDefine: the test looks for the words on the command
\* line instead of reading args.modules, so the default is not seen.
EncodingDefineArgv(m) ==
    IF \E i \in 1..Len(argv) : argv[i] \in {"gpr_encoding", "all"}
    THEN "ENABLE_GPR_ENCODING=1"
    ELSE "ENABLE_GPR_ENCODING=0"

\* lines 182-185: the define the encoding test appends
EncodingDefine(m) ==
    IF m = "gpr_encoding" \/ m = "all"
    THEN "ENABLE_GPR_ENCODING=1"
    ELSE "ENABLE_GPR_ENCODING=0"

\* Variant of DecodingDefine: the decoding branch copied from the encoding
\* branch with the define's name left as it was.
DecodingDefineCopied(m) ==
    IF m = "gpr_decoding" \/ m = "all"
    THEN "ENABLE_GPR_ENCODING=1"
    ELSE "ENABLE_GPR_ENCODING=0"

\* lines 187-190: the define the decoding test appends
DecodingDefine(m) ==
    IF m = "gpr_decoding" \/ m = "all"
    THEN "ENABLE_GPR_DECODING=1"
    ELSE "ENABLE_GPR_DECODING=0"

(***************************************************************************)
(* The steps of the script.                                                *)
(***************************************************************************)
Descriptor(obj) == [kind |-> "descriptor", value |-> obj]

HelpText == [kind |-> "help", value |-> Unbound]

Emitted == {i \in 1..Len(stdout) : stdout[i].kind = "descriptor"}

\* What the invocation that just ended leaves behind for the next one to be
\* compared with: its printed descriptor, when it printed one.
Remembered ==
    IF Emitted # {}
    THEN [set |-> TRUE, argv |-> argv, modules |-> args.modules,
          descriptor |-> stdout[CHOOSE i \in Emitted : TRUE].value]
    ELSE prev

\* The script is started with command line a: a fresh interpreter.
Invoke(a) ==
    /\ pc \in {"idle", "exited"}
    /\ pc' = "construct"
    /\ argv' = a
    /\ gyp_build_object' = Unbound
    /\ args' = NoArgs
    /\ stdout' = <<>>
    /\ stderr' = <<>>
    /\ status' = 0
    /\ prev' = Remembered

\* lines 10-174: the dict literal is bound to gyp_build_object
Construct ==
    /\ pc = "construct"
    /\ gyp_build_object' = Catalog
    /\ pc' = "parse"
    /\ UNCHANGED <<argv, args, stdout, stderr, status, prev>>

\* line 180, parse_args returns a namespace
ParseAccept ==
    /\ pc = "parse"
    /\ parse_args(argv).outcome = "ok"
    /\ args' = [bound |-> TRUE, modules |-> parse_args(argv).modules]
    /\ pc' = "enc"
    /\ UNCHANGED <<argv, gyp_build_object, stdout, stderr, status, prev>>

\* line 180, -h: the help is printed and the interpreter exits with 0
ParseHelpExit ==
    /\ pc = "parse"
    /\ parse_args(argv).outcome = "help"
    /\ stdout' = Append(stdout, HelpText)
    /\ status' = 0
    /\ pc' = "exited"
    /\ UNCHANGED <<argv, gyp_build_object, args, stderr, prev>>

\* line 180, parser.error: a message on stderr and exit status 2
ParseErrorExit ==
    /\ pc = "parse"
    /\ parse_args(argv).outcome = "error"
    /\ stderr' = Append(stderr, parse_args(argv).message)
    /\ status' = 2
    /\ pc' = "exited"
    /\ UNCHANGED <<argv, gyp_build_object, args, stdout, prev>>

\* lines 182-185
EncodingStep ==
    /\ pc = "enc"
    /\ gyp_build_object' = AppendDefine(gyp_build_object, EncodingDefine(args.modules))
    /\ pc' = "dec"
    /\ UNCHANGED <<argv, args, stdout, stderr, status, prev>>

\* Variant of DecodingStep: line 187 written as elif, so nothing is appended
\* when the encoding test on line 182 was true.
DecodingStepElif ==
    /\ pc = "dec"
    /\ gyp_build_object' =
         IF args.modules = "gpr_encoding" \/ args.modules = "all"
         THEN gyp_build_object
         ELSE AppendDefine(gyp_build_object, DecodingDefine(args.modules))
    /\ pc' = "print"
    /\ UNCHANGED <<argv, args, stdout, stderr, status, prev>>

\* lines 187-190
DecodingStep ==
    /\ pc = "dec"
    /\ gyp_build_object' = AppendDefine(gyp_build_object, DecodingDefine(args.modules))
    /\ pc' = "print"
    /\ UNCHANGED <<argv, args, stdout, stderr, status, prev>>

\* line 192, then the script ends
PrintStep ==
    /\ pc = "print"
    /\ stdout' = Append(stdout, Descriptor(gyp_build_object))
    /\ status' = 0
    /\ pc' = "exited"
    /\ UNCHANGED <<argv, gyp_build_object, args, stderr, prev>>

\* The resolver exercised as a component: lines 182-192 entered with the
\* catalog built and args.modules = s, whatever s is.
CoreReceive(s) ==
    /\ pc \in {"idle", "exited"}
    /\ pc' = "enc"
    /\ argv' = <<>>
    /\ gyp_build_object' = Catalog
    /\ args' = [bound |-> TRUE, modules |-> s]
    /\ stdout' = <<>>
    /\ stderr' = <<>>
    /\ status' = 0
    /\ prev' = Remembered

Init ==
    /\ pc = "idle"
    /\ argv = <<>>
    /\ gyp_build_object = Unbound
    /\ args = NoArgs
    /\ stdout = <<>>
    /\ stderr = <<>>
    /\ status = 0
    /\ prev = NoPrev

Next ==
    \/ \E a \in ArgvSet : Invoke(a)
    \/ Construct
    \/ ParseAccept
    \/ ParseHelpExit
    \/ ParseErrorExit
    \/ EncodingStep
    \/ DecodingStep
    \/ PrintStep

\* The whole script, started again and again.
Spec == Init /\ [][Next]_vars

NextCore ==
    \/ \E s \in RawSelections : CoreReceive(s)
    \/ EncodingStep
    \/ DecodingStep
    \/ PrintStep

\* Lines 182-192 alone, entered with any selection value.
SpecCore == Init /\ [][NextCore]_vars

(***************************************************************************)
(* Vocabulary of the properties.                                           *)
(***************************************************************************)
IsBound == gyp_build_object # Unbound

Target == gyp_build_object.targets[1]

\* d is the define of feature key k: "k=0" or "k=1".
HasKey(d, k) == \E v \in {"0", "1"} : d = k \o "=" \o v

FeatureKeys == {"ENABLE_GPR_ENCODING", "ENABLE_GPR_DECODING"}

IsFeatureDefine(d) == \E k \in FeatureKeys : HasKey(d, k)

\* The feature defines of a define list, in the order they stand in it.
FeatureDefines(defs) == SelectSeq(defs, IsFeatureDefine)

\* Both tests of the resolver have run in this invocation.
Resolved == pc = "print" \/ (pc = "exited" /\ Emitted # {})

\* The command line gives -m / --modules a word that is no choice.
SuppliesInvalid(a) ==
    \E i \in 1..Len(a) : i < Len(a) /\ a[i] \in OptionStrings /\ a[i + 1] \notin choices

\* The command line has no -m / --modules at all.
NoModuleOption(a) == \A i \in 1..Len(a) : a[i] \notin OptionStrings

\* Every field of the target but defines.
Frame(obj) ==
    [target_name  |-> obj.targets[1].target_name,
     type         |-> obj.targets[1].type,
     include_dirs |-> obj.targets[1].include_dirs,
     includes     |-> obj.targets[1].includes,
     sources      |-> obj.targets[1].sources]

(***************************************************************************)
(* C1: once both tests have run on a valid selection, the feature defines  *)
(* in the list are ENABLE_GPR_ENCODING=1 exactly for gpr_encoding and all  *)
(* and ENABLE_GPR_DECODING=1 exactly for gpr_decoding and all: all gives   *)
(* (1,1), gpr_encoding (1,0), gpr_decoding (0,1), and none gives (0,0).    *)
(***************************************************************************)
C1_FeatureTable ==
    (Resolved /\ args.modules \in {"gpr_encoding", "gpr_decoding", "all"}) =>
        LET f == FeatureDefines(Target.defines)
            m == args.modules
        IN  /\ m = "all" => f = <<"ENABLE_GPR_ENCODING=1", "ENABLE_GPR_DECODING=1">>
            /\ m = "gpr_encoding" => f = <<"ENABLE_GPR_ENCODING=1", "ENABLE_GPR_DECODING=0">>
            /\ m = "gpr_decoding" => f = <<"ENABLE_GPR_ENCODING=0", "ENABLE_GPR_DECODING=1">>
            /\ f # <<"ENABLE_GPR_ENCODING=0", "ENABLE_GPR_DECODING=0">>

C1_Witness ==
    /\ pc = "exited"
    /\ Emitted # {}
    /\ args.modules = "all"
    /\ prev.set
    /\ prev.modules = "gpr_decoding"

(***************************************************************************)
(* C2: when the command line gives the module option a value outside the   *)
(* three choices, the invocation never enters the resolver: no feature     *)
(* define is ever in the define list, args is never bound and no           *)
(* descriptor is printed.                                                  *)
(***************************************************************************)
C2_InvalidRejected ==
    SuppliesInvalid(argv) =>
        /\ pc \notin {"enc", "dec", "print"}
        /\ ~args.bound
        /\ IsBound => FeatureDefines(Target.defines) = <<>>
        /\ Emitted = {}

C2_Witness ==
    /\ pc = "exited"
    /\ argv = <<"-m", "none">>
    /\ status = 2
    /\ stderr = <<"invalid choice">>
    /\ IsBound

(***************************************************************************)
(* C3: every printed descriptor has a define list of the three baseline    *)
(* entries, unchanged and in order, followed by the ENABLE_GPR_ENCODING    *)
(* define and then the ENABLE_GPR_DECODING define: five entries.           *)
(***************************************************************************)
C3_DefinesShape ==
    \A i \in Emitted :
        LET d == stdout[i].value.targets[1].defines
            b == <<"<@(default_defines)", "qDNGXMPFiles=0", "qDNGXMPDocOps=0">>
        IN  /\ Len(d) = Len(b) + 2
            /\ SubSeq(d, 1, Len(b)) = b
            /\ HasKey(d[Len(b) + 1], "ENABLE_GPR_ENCODING")
            /\ HasKey(d[Len(b) + 2], "ENABLE_GPR_DECODING")

C3_Witness ==
    /\ Emitted # {}
    /\ args.modules = "gpr_encoding"
    /\ argv = <<"--modules", "gpr_encoding">>

\* The sources list exists and has entries.
C4_NonEmpty == IsBound => Len(Target.sources) > 0

\* A step of the resolver keeps every field but defines.
C4_Step == pc \in {"enc", "dec"} => Frame(gyp_build_object') = Frame(gyp_build_object)

(***************************************************************************)
(* C4: the sources list of the descriptor is never empty, and the two      *)
(* steps of the resolver leave sources, target_name, type, include_dirs    *)
(* and includes exactly as they were.                                      *)
(***************************************************************************)
C4_SourcesFrame == []C4_NonEmpty /\ [][C4_Step]_vars

C4_Witness ==
    /\ pc = "print"
    /\ Len(Target.sources) > 0
    /\ Len(Target.defines) > Len(default_defines)
    /\ args.modules = "gpr_decoding"

(***************************************************************************)
(* C5: once both tests have run, the define list holds exactly one entry   *)
(* with key ENABLE_GPR_ENCODING and exactly one with key                   *)
(* ENABLE_GPR_DECODING.                                                    *)
(***************************************************************************)
C5_OnePerFeature ==
    Resolved =>
        \A k \in FeatureKeys :
            Cardinality({i \in DOMAIN Target.defines : HasKey(Target.defines[i], k)}) = 1

C5_Witness ==
    /\ pc = "print"
    /\ args.modules = "gpr_encoding"
    /\ Len(FeatureDefines(Target.defines)) = 2

C7_DefaultAll ==
    (NoModuleOption(argv) /\ args.bound) =>
        /\ args.modules = "all"
        /\ \A i \in Emitted :
             LET d == stdout[i].value.targets[1].defines
             IN  /\ Len(d) >= 2
                 /\ d[Len(d) - 1] = "ENABLE_GPR_ENCODING=1"
                 /\ d[Len(d)] = "ENABLE_GPR_DECODING=1"
                 /\ (prev.set /\ ~NoModuleOption(prev.argv) /\ prev.modules = "all")
                        => stdout[i].value = prev.descriptor

C7_Witness ==
    /\ pc = "exited"
    /\ argv = <<>>
    /\ Emitted # {}
    /\ prev.set
    /\ prev.argv = <<"-m", "all">>

(***************************************************************************)
(* C8: two invocations with the same selection print the same descriptor,  *)
(* with the same feature defines, however the selection was written on     *)
(* the command line.                                                       *)
(***************************************************************************)
C8_Determined ==
    \A i \in Emitted :
        (prev.set /\ prev.modules = args.modules) =>
            /\ stdout[i].value = prev.descriptor
            /\ FeatureDefines(stdout[i].value.targets[1].defines)
                 = FeatureDefines(prev.descriptor.targets[1].defines)

C8_Witness ==
    /\ Emitted # {}
    /\ prev.set
    /\ prev.modules = args.modules
    /\ prev.argv # argv
    /\ args.modules = "all"

\* What the define list and stdout hold at each position of the script.
C10_Positions ==
    /\ Cardinality(Emitted) <= 1
    /\ pc \in {"parse", "enc"} => Target.defines = default_defines
    /\ pc = "dec" => /\ Len(Target.defines) = Len(default_defines) + 1
                     /\ HasKey(Target.defines[Len(Target.defines)], "ENABLE_GPR_ENCODING")
    /\ pc = "print" => /\ Len(Target.defines) = Len(default_defines) + 2
                       /\ Emitted = {}
    /\ \A i \in Emitted :
          /\ pc = "exited"
          /\ stdout[i].value = gyp_build_object
          /\ Len(FeatureDefines(stdout[i].value.targets[1].defines)) = 2

\* Where each step leads, and which steps change the object and stdout.
C10_Step ==
    /\ pc = "construct" => pc' = "parse"
    /\ pc = "parse" => pc' \in {"enc", "exited"}
    /\ pc = "enc" => pc' = "dec"
    /\ pc = "dec" => pc' = "print"
    /\ pc = "print" => pc' = "exited" /\ Emitted' # {}
    /\ (IsBound /\ gyp_build_object' # gyp_build_object) =>
          \/ pc \in {"enc", "dec"} /\ Len(gyp_build_object'.targets[1].defines) = Len(Target.defines) + 1
          \/ pc = "exited" /\ pc' = "construct"
    /\ Emitted' # Emitted => \/ pc = "print"
                             \/ pc = "exited" /\ pc' = "construct"

(***************************************************************************)
(* C10: an invocation goes construct, parse, encoding append, decoding     *)
(* append, print, in that order.  The define list grows by one entry at    *)
(* the encoding step and by one at the decoding step and at no other step; *)
(* a descriptor is printed at most once, only by the print step, only with *)
(* both feature defines in it; once printed the object does not change     *)
(* for the rest of the invocation.                                         *)
(***************************************************************************)
C10_Lifecycle == []C10_Positions /\ [][C10_Step]_vars

C10_Witness ==
    /\ pc = "exited"
    /\ Cardinality(Emitted) = 1
    /\ Len(Target.defines) = Len(default_defines) + 2
    /\ status = 0

====
